---- MODULE Spec2Model ----
(***************************************************************************)
(* A model of pretty_dtoa (src/src/lib.rs): the FmtFloatConfig builder,    *)
(* the two entry points dtoa / ftoa and the renderer digits_to_a, which is *)
(* modelled stage by stage.                                                *)
(*                                                                         *)
(* Bytes of the digit vector are modelled by their distance from '0': the  *)
(* digit '5' is 5, and the transient byte ':' ('9' + 1) is 10.  Strings    *)
(* are sequences of one-character strings.  An Option is <<>> (None) or    *)
(* <<v>> (Some(v)).                                                        *)
(***************************************************************************)
EXTENDS Integers, Sequences, FiniteSets, TLC

VARIABLES
    config,          \* the FmtFloatConfig being built, then passed to the entry point
    value,           \* the float passed to the entry point (an f64 or an f32)
    calls,           \* builder calls made so far: the last argument per option
    sign,            \* digits_to_a: sign
    digits,          \* digits_to_a: digits (Vec<u8>, as digit values)
    e,               \* digits_to_a: e
    use_e_notation,  \* digits_to_a: use_e_notation
    pc,              \* position in the call
    result           \* the returned String (<<>> until the call returns)

vars == <<config, calls, value, sign, digits, e, use_e_notation, pc, result>>

\* ------------------------------------------------------------------------
\* Bounds of the model
\* ------------------------------------------------------------------------
MaxLen == 4          \* longest digit sequence fed to the renderer
MaxLen32 == 2        \* longest digit sequence of an f32 input
Precision64 == 4     \* significand bits of the scaled-down f64
Precision32 == 3     \* significand bits of the scaled-down f32
SmallBinExp == 14    \* binary exponents range over -SmallBinExp .. LargeBinExp
LargeBinExp == 10
MaxDecimalLen == 3   \* longest decimal tried for a scaled-down float
WidthLen == 6        \* longest digit sequence fed to the width stage
MaxCalls == 3        \* builder calls made on one configuration
MaxExp == 5          \* decimal exponents range over -MaxExp .. MaxExp

\* ------------------------------------------------------------------------
\* FmtFloatConfig
\* ------------------------------------------------------------------------
Round == "Round"
Truncate == "Truncate"

default ==
    [ max_sig_digits      |-> <<>>,
      min_sig_digits      |-> <<>>,
      max_decimal_digits  |-> <<>>,
      min_decimal_digits  |-> <<>>,
      upper_e_break       |-> 4,
      lower_e_break       |-> -4,
      ignore_extremes     |-> <<>>,
      round_mode          |-> Round,
      force_e_notation    |-> FALSE,
      force_no_e_notation |-> FALSE,
      capitalize_e        |-> FALSE,
      add_point_zero      |-> TRUE,
      max_width           |-> <<>>,
      radix_point         |-> "." ]

max_significant_digits(self, val) == [self EXCEPT !.max_sig_digits = <<val>>]
min_significant_digits(self, val) == [self EXCEPT !.min_sig_digits = <<val>>]
max_decimal_digits(self, val) == [self EXCEPT !.max_decimal_digits = <<val>>]
min_decimal_digits(self, val) == [self EXCEPT !.min_decimal_digits = <<val>>]
upper_e_break(self, val) == [self EXCEPT !.upper_e_break = val]
lower_e_break(self, val) == [self EXCEPT !.lower_e_break = val]
ignore_extremes(self, limit) == [self EXCEPT !.ignore_extremes = <<limit>>]
truncate(self) == [self EXCEPT !.round_mode = Truncate]
round(self) == [self EXCEPT !.round_mode = Round]
\* force_e_notation that leaves the opposite flag alone
force_e_notation_keeps_other(self) == [self EXCEPT !.force_e_notation = TRUE]

force_e_notation(self) ==
    [self EXCEPT !.force_e_notation = TRUE, !.force_no_e_notation = FALSE]
force_no_e_notation(self) ==
    [self EXCEPT !.force_no_e_notation = TRUE, !.force_e_notation = FALSE]
capitalize_e(self, val) == [self EXCEPT !.capitalize_e = val]
add_point_zero(self, val) == [self EXCEPT !.add_point_zero = val]
max_width(self, val) == [self EXCEPT !.max_width = <<val>>]
\* no_max_width that leaves max_width as it is
no_max_width_keeps(self) == self

no_max_width(self) == [self EXCEPT !.max_width = <<>>]
radix_point(self, val) == [self EXCEPT !.radix_point = val]

\* ------------------------------------------------------------------------
\* Strings
\* ------------------------------------------------------------------------
\* u8 as char, for the bytes '0' .. ':' the digit vector can hold
DigitChar(d) == <<"0", "1", "2", "3", "4", "5", "6", "7", "8", "9", ":">>[d + 1]

DigitsStr(ds) == [i \in 1..Len(ds) |-> DigitChar(ds[i])]

RECURSIVE NatToStr(_)
NatToStr(n) ==
    IF n < 10 THEN <<DigitChar(n)>>
    ELSE NatToStr(n \div 10) \o <<DigitChar(n % 10)>>

\* format!("{}", n) for an i32
IntToStr(n) == IF n < 0 THEN <<"-">> \o NatToStr(-n) ELSE NatToStr(n)

Zeros(n) == [i \in 1..n |-> "0"]

RECURSIVE Pow10(_)
Pow10(k) == IF k <= 0 THEN 1 ELSE 10 * Pow10(k - 1)

RECURSIVE Pow2(_)
Pow2(k) == IF k <= 0 THEN 1 ELSE 2 * Pow2(k - 1)

\* ------------------------------------------------------------------------
\* digits_to_a, stage by stage.  Every stage yields the digit vector, the
\* exponent and whether the stage panicked.
\* ------------------------------------------------------------------------
Ok(ds, ex) == [digits |-> ds, e |-> ex, panic |-> FALSE]
Panicked(ds, ex) == [digits |-> ds, e |-> ex, panic |-> TRUE]

\* the carry loop without the `e += 1` of its collapse to a single 1
RECURSIVE CarryLoop_keeps_e(_, _, _)
CarryLoop_keeps_e(ds, l, ex) ==
    IF ds[l] # 10 THEN Ok(ds, ex)
    ELSE IF l = 1 THEN Ok([ds EXCEPT ![1] = 1], ex)
    ELSE LET popped == SubSeq(ds, 1, Len(ds) - 1)
         IN CarryLoop_keeps_e([popped EXCEPT ![l - 1] = @ + 1], l - 1, ex)

\* the carry loop `while digits[l] == digit_to_u8(10)`; l is the 1-based
\* index of the last digit, which has just been incremented
RECURSIVE CarryLoop(_, _, _)
CarryLoop(ds, l, ex) ==
    IF ds[l] # 10 THEN Ok(ds, ex)
    ELSE IF l = 1 THEN Ok([ds EXCEPT ![1] = 1], ex + 1)
    ELSE LET popped == SubSeq(ds, 1, Len(ds) - 1)
         IN CarryLoop([popped EXCEPT ![l - 1] = @ + 1], l - 1, ex)

\* the round-up that increments the last digit and runs no carry loop
RoundUp_no_carry(ds, ex) ==
    IF Len(ds) = 0 THEN Panicked(ds, ex)
    ELSE Ok([ds EXCEPT ![Len(ds)] = @ + 1], ex)

\* `let mut l = digits.len() - 1; digits[l] += 1; while ...`: on an empty
\* vector the subtraction underflows (overflow checks) or the index is out
\* of bounds (wrapping build); both panic
RoundUp(ds, ex) ==
    IF Len(ds) = 0 THEN Panicked(ds, ex)
    ELSE CarryLoop([ds EXCEPT ![Len(ds)] = @ + 1], Len(ds), ex)

\* the cut that rounds whatever the round mode is
CutAt_ignores_mode(ds, ex, pos, mode) ==
    IF ds[pos + 1] >= 5 THEN RoundUp(SubSeq(ds, 1, pos), ex)
    ELSE Ok(SubSeq(ds, 1, pos), ex)

\* `digits.drain(pos..).next().unwrap()` followed by the rounding block;
\* pos is the 0-based cut position, pos < digits.len()
CutAt(ds, ex, pos, mode) ==
    LET removed == ds[pos + 1]
        kept == SubSeq(ds, 1, pos)
    IN IF mode = Round /\ removed >= 5 THEN RoundUp(kept, ex) ELSE Ok(kept, ex)

\* lines 286-307
SigCapStage(ds, ex, cfg) ==
    IF cfg.max_sig_digits # <<>> /\ Len(ds) > cfg.max_sig_digits[1]
    THEN CutAt(ds, ex, cfg.max_sig_digits[1], cfg.round_mode)
    ELSE Ok(ds, ex)

\* lines 308-329
DecCapStage(ds, ex, cfg) ==
    IF cfg.max_decimal_digits = <<>> THEN Ok(ds, ex)
    ELSE LET adjusted_limit_position == cfg.max_decimal_digits[1] + ex
         IN IF 0 <= adjusted_limit_position /\ adjusted_limit_position < Len(ds)
            THEN CutAt(ds, ex, adjusted_limit_position, cfg.round_mode)
            ELSE Ok(ds, ex)

\* the scan that cuts a run of 9s without incrementing the digit before it
RECURSIVE ExtremesLoop_no_increment(_, _, _, _, _, _, _)
ExtremesLoop_no_increment(ds, i, st, nine_counter, zero_counter, ex, limit) ==
    IF i > Len(ds) THEN Ok(st, ex)
    ELSE LET digit == ds[i]
             nc == IF digit # 9 THEN 0 ELSE nine_counter + 1
             zc == IF digit # 0 THEN 0 ELSE zero_counter + 1
         IN IF digit = 9 /\ nc >= limit
            THEN LET from == Len(st) + 1 - nc
                 IN IF from > Len(st) \/ from < 0 THEN Panicked(st, ex)
                    ELSE IF from = 0 THEN Ok(<<1>>, ex + 1)
                    ELSE Ok(SubSeq(st, 1, from), ex)
            ELSE IF digit = 0 /\ zc >= limit
            THEN LET from == Len(st) + 1 - zc
                 IN IF from > Len(st) \/ from < 0 THEN Panicked(st, ex)
                    ELSE Ok(SubSeq(st, 1, from), ex)
            ELSE ExtremesLoop_no_increment(ds, i + 1, Append(st, digit), nc, zc, ex, limit)

\* lines 335-372: the scan over digits[i..]; st is stripped_string
RECURSIVE ExtremesLoop(_, _, _, _, _, _, _)
ExtremesLoop(ds, i, st, nine_counter, zero_counter, ex, limit) ==
    IF i > Len(ds) THEN Ok(st, ex)
    ELSE LET digit == ds[i]
             nc == IF digit # 9 THEN 0 ELSE nine_counter + 1
             zc == IF digit # 0 THEN 0 ELSE zero_counter + 1
         IN IF digit = 9 /\ nc >= limit
            THEN LET from == Len(st) + 1 - nc
                     cut == SubSeq(st, 1, from)
                 IN IF from > Len(st) \/ from < 0 THEN Panicked(st, ex)
                    ELSE IF Len(cut) = 0 THEN Ok(<<1>>, ex + 1)
                    ELSE Ok([cut EXCEPT ![Len(cut)] = @ + 1], ex)
            ELSE IF digit = 0 /\ zc >= limit
            THEN LET from == Len(st) + 1 - zc
                 IN IF from > Len(st) \/ from < 0 THEN Panicked(st, ex)
                    ELSE Ok(SubSeq(st, 1, from), ex)
            ELSE ExtremesLoop(ds, i + 1, Append(st, digit), nc, zc, ex, limit)

\* lines 330-374
ExtremesStage(ds, ex, cfg) ==
    IF cfg.ignore_extremes = <<>> THEN Ok(ds, ex)
    ELSE ExtremesLoop(ds, 1, <<>>, 0, 0, ex, cfg.ignore_extremes[1])

\* lines 375-382
MinSigStage(ds, ex, cfg) ==
    IF cfg.min_sig_digits # <<>> /\ (Len(ds) % 256) < cfg.min_sig_digits[1]
    THEN Ok(ds \o [i \in 1..(cfg.min_sig_digits[1] - (Len(ds) % 256)) |-> 0], ex)
    ELSE Ok(ds, ex)

\* the decimal padding that counts digits, not decimal positions
MinDecStage_ignores_e(ds, ex, cfg) ==
    IF cfg.min_decimal_digits # <<>> /\ Len(ds) < cfg.min_decimal_digits[1]
    THEN Ok(ds \o [i \in 1..(cfg.min_decimal_digits[1] - Len(ds)) |-> 0], ex)
    ELSE Ok(ds, ex)

\* lines 383-389
MinDecStage(ds, ex, cfg) ==
    IF cfg.min_decimal_digits # <<>> /\ Len(ds) < cfg.min_decimal_digits[1] + ex
    THEN Ok(ds \o [i \in 1..(cfg.min_decimal_digits[1] + ex - Len(ds)) |-> 0], ex)
    ELSE Ok(ds, ex)

\* the decision with the lower break compared strictly
NotationDecision_strict_lower(ex, cfg) ==
    (ex > cfg.upper_e_break \/ ex < cfg.lower_e_break \/ cfg.force_e_notation)
        /\ ~cfg.force_no_e_notation

\* line 390
NotationDecision(ex, cfg) ==
    (ex > cfg.upper_e_break \/ ex <= cfg.lower_e_break \/ cfg.force_e_notation)
        /\ ~cfg.force_no_e_notation

\* lines 391-429; checks says whether the build checks integer overflow
\* (`max_width - 1` on a u8 of 0 panics with checks and wraps without)
WidthStage(sn, ds, ex, use_e, cfg, checks) ==
    IF cfg.max_width = <<>>
    THEN [digits |-> ds, e |-> ex, panic |-> FALSE, use_e |-> use_e]
    ELSE IF sn /\ cfg.max_width[1] = 0 /\ checks
    THEN [digits |-> ds, e |-> ex, panic |-> TRUE, use_e |-> use_e]
    ELSE
    LET mw == IF sn THEN (cfg.max_width[1] - 1) % 256 ELSE cfg.max_width[1]
    IN IF ex > 0 /\ ex + (IF cfg.add_point_zero THEN 2 ELSE 0) > mw
       THEN [digits |-> ds, e |-> ex, panic |-> FALSE, use_e |-> TRUE]
       ELSE IF -ex + 3 > mw
       THEN [digits |-> ds, e |-> ex, panic |-> FALSE, use_e |-> TRUE]
       ELSE IF ~use_e
       THEN LET is_integer == ex > Len(ds)
                extra_length ==
                    (IF cfg.add_point_zero /\ is_integer THEN 2 ELSE 0)
                  + (IF ~is_integer /\ ~(ex > 0 /\ (ex % 256) = mw) THEN 1 ELSE 0)
                  + (IF ex > 0 /\ Len(ds) < ex THEN ex - Len(ds) ELSE 0)
                  + (IF ex <= 0 THEN -ex + 1 ELSE 0)
                total_length == Len(ds) + extra_length
            IN IF total_length > mw
               THEN IF mw - extra_length < 0
                    THEN [digits |-> ds, e |-> ex, panic |-> TRUE, use_e |-> use_e]
                    ELSE LET r == CutAt(ds, ex, mw - extra_length, cfg.round_mode)
                         IN [digits |-> r.digits, e |-> r.e, panic |-> r.panic,
                             use_e |-> use_e]
               ELSE [digits |-> ds, e |-> ex, panic |-> FALSE, use_e |-> use_e]
       ELSE [digits |-> ds, e |-> ex, panic |-> FALSE, use_e |-> use_e]

Returned(str) == [str |-> str, panic |-> FALSE]
FormatPanicked == [str |-> <<>>, panic |-> TRUE]

\* the marker that is never capitalized
EMarker_lowercase(cfg) == "e"

EMarker(cfg) == IF cfg.capitalize_e THEN "E" ELSE "e"
SignStr(sn) == IF sn THEN <<"-">> ELSE <<>>

\* the generic e-notation case printing e where e - 1 belongs
GenericENotation_prints_e(sn, ds, ex, cfg) ==
    IF Len(ds) = 0 THEN FormatPanicked
    ELSE Returned(
           SignStr(sn) \o <<DigitChar(ds[1]), cfg.radix_point>>
        \o (IF Len(ds) = 1
            THEN (IF cfg.max_width = <<>> THEN <<"0">> ELSE <<>>)
            ELSE DigitsStr(SubSeq(ds, 2, Len(ds))))
        \o <<EMarker(cfg)>> \o IntToStr(ex))

\* lines 454-476: the generic e-notation case
GenericENotation(sn, ds, ex, cfg) ==
    IF Len(ds) = 0 THEN FormatPanicked
    ELSE Returned(
           SignStr(sn) \o <<DigitChar(ds[1]), cfg.radix_point>>
        \o (IF Len(ds) = 1
            THEN (IF cfg.max_width = <<>> THEN <<"0">> ELSE <<>>)
            ELSE DigitsStr(SubSeq(ds, 2, Len(ds))))
        \o <<EMarker(cfg)>> \o IntToStr(ex - 1))

\* lines 431-477
ENotation(sn, ds, ex, cfg) ==
    IF cfg.max_width = <<>> THEN GenericENotation(sn, ds, ex, cfg)
    ELSE IF Len(ds) = 0 THEN FormatPanicked   \* digits.drain(1..) past the end
    ELSE LET mw == cfg.max_width[1]
             tail == SubSeq(ds, 2, Len(ds))
             e_length == Len(IntToStr(ex - 1))
             extra_length == 3 + e_length + (IF sn THEN 1 ELSE 0)
             tail_as_str == IF extra_length >= mw \/ mw - extra_length >= Len(tail)
                            THEN (IF extra_length >= mw THEN <<>> ELSE tail)
                            ELSE SubSeq(tail, 1, mw - extra_length)
         IN IF Len(tail_as_str) = 0 /\ mw = 7 /\ sn
            THEN Returned(<<"-", DigitChar(ds[1]), EMarker(cfg)>> \o IntToStr(ex - 1))
            ELSE GenericENotation(sn, <<ds[1]>> \o tail_as_str, ex, cfg)

\* the plain case without the zeros that fill an integer up to e digits
NoENotation_unpadded(sn, ds, ex, cfg) ==
    LET head == IF ex <= 0 THEN <<"0", cfg.radix_point>> \o Zeros(-ex) ELSE <<>>
        body == IF ex > 0 /\ ex < Len(ds)
                THEN DigitsStr(SubSeq(ds, 1, ex)) \o <<cfg.radix_point>>
                     \o DigitsStr(SubSeq(ds, ex + 1, Len(ds)))
                ELSE DigitsStr(ds)
        suffix == IF Len(ds) <= ex /\ cfg.add_point_zero
                  THEN <<cfg.radix_point, "0">> ELSE <<>>
    IN Returned(SignStr(sn) \o head \o body \o suffix)

\* lines 478-508
NoENotation(sn, ds, ex, cfg) ==
    LET curr == Len(ds)
        head == IF ex <= 0 THEN <<"0", cfg.radix_point>> \o Zeros(-ex) ELSE <<>>
        body == IF ex > 0 /\ ex < Len(ds)
                THEN DigitsStr(SubSeq(ds, 1, ex)) \o <<cfg.radix_point>>
                     \o DigitsStr(SubSeq(ds, ex + 1, Len(ds)))
                ELSE DigitsStr(ds)
        is_integer == curr <= ex
        pad == IF ex > 0 /\ curr < ex THEN Zeros(ex - curr) ELSE <<>>
        suffix == IF is_integer /\ cfg.add_point_zero
                  THEN <<cfg.radix_point, "0">> ELSE <<>>
    IN Returned(SignStr(sn) \o head \o body \o pad \o suffix)

\* lines 430-509
FormatStage(sn, ds, ex, use_e, cfg) ==
    IF use_e THEN ENotation(sn, ds, ex, cfg) ELSE NoENotation(sn, ds, ex, cfg)

\* digits_to_a as a whole (lines 281-509): the stages in order, the first
\* panic ending the call
digits_to_a(sn, ds, ex, cfg, checks) ==
    LET s1 == SigCapStage(ds, ex, cfg)
        s2 == DecCapStage(s1.digits, s1.e, cfg)
        s3 == ExtremesStage(s2.digits, s2.e, cfg)
        s4 == MinSigStage(s3.digits, s3.e, cfg)
        s5 == MinDecStage(s4.digits, s4.e, cfg)
        s6 == WidthStage(sn, s5.digits, s5.e, NotationDecision(s5.e, cfg), cfg, checks)
    IN IF s1.panic \/ s2.panic \/ s3.panic \/ s6.panic THEN FormatPanicked
       ELSE FormatStage(sn, s6.digits, s6.e, s6.use_e, cfg)

\* ------------------------------------------------------------------------
\* The entry points
\* ------------------------------------------------------------------------
\* format!("{}", rad_10.mantissa).into_bytes(), as digit values
RECURSIVE MantissaDigits(_)
MantissaDigits(m) ==
    IF m < 10 THEN <<m>> ELSE Append(MantissaDigits(m \div 10), m % 10)

Str_NaN == <<"N", "a", "N">>
Str_inf == <<"i", "n", "f">>
Str_neg_inf == <<"-", "i", "n", "f">>

\* dtoa before the call of digits_to_a (lines 528-539): the string it returns
\* at once, if it does
dtoa_early(v) ==
    IF v.kind = "nan" THEN <<Str_NaN>>
    ELSE IF v.kind = "inf" THEN <<Str_inf>>
    ELSE <<>>

\* ftoa before the call of digits_to_a (lines 543-558)
ftoa_early(v) ==
    IF v.kind = "nan" THEN <<Str_NaN>>
    ELSE IF v.kind = "inf"
    THEN (IF ~v.negative THEN <<Str_inf>> ELSE <<Str_neg_inf>>)
    ELSE <<>>

Enter(type, early) ==
    /\ pc = "call"
    /\ value.type = type
    /\ IF early # <<>>
       THEN /\ result' = early[1]
            /\ pc' = "done"
            /\ UNCHANGED <<sign, digits, e>>
       ELSE /\ sign' = value.negative
            /\ digits' = MantissaDigits(value.mantissa)
            /\ e' = value.exponent + Len(MantissaDigits(value.mantissa))
            /\ pc' = "max_sig_digits"
            /\ UNCHANGED result
    /\ UNCHANGED <<config, calls, value, use_e_notation>>

Dtoa == Enter("f64", dtoa_early(value))

Ftoa == Enter("f32", ftoa_early(value))

\* one stage of digits_to_a that rewrites digits and e
Stage(at, r, next) ==
    /\ pc = at
    /\ digits' = r.digits
    /\ e' = r.e
    /\ pc' = IF r.panic THEN "panic" ELSE next
    /\ UNCHANGED <<config, calls, value, sign, use_e_notation, result>>

MaxSigDigits ==
    Stage("max_sig_digits", SigCapStage(digits, e, config), "max_decimal_digits")

MaxDecimalDigits ==
    Stage("max_decimal_digits", DecCapStage(digits, e, config), "ignore_extremes")

IgnoreExtremes ==
    Stage("ignore_extremes", ExtremesStage(digits, e, config), "min_sig_digits")

MinSigDigits ==
    Stage("min_sig_digits", MinSigStage(digits, e, config), "min_decimal_digits")

MinDecimalDigits ==
    Stage("min_decimal_digits", MinDecStage(digits, e, config), "notation")

Notation ==
    /\ pc = "notation"
    /\ use_e_notation' = NotationDecision(e, config)
    /\ pc' = "max_width"
    /\ UNCHANGED <<config, calls, value, sign, digits, e, result>>

MaxWidth ==
    /\ pc = "max_width"
    /\ \E checks \in BOOLEAN :
         LET r == WidthStage(sign, digits, e, use_e_notation, config, checks)
         IN /\ digits' = r.digits
            /\ e' = r.e
            /\ use_e_notation' = r.use_e
            /\ pc' = IF r.panic THEN "panic" ELSE "format"
    /\ UNCHANGED <<config, calls, value, sign, result>>

Format ==
    /\ pc = "format"
    /\ LET r == FormatStage(sign, digits, e, use_e_notation, config)
       IN /\ result' = r.str
          /\ pc' = IF r.panic THEN "panic" ELSE "done"
    /\ UNCHANGED <<config, calls, value, sign, digits, e, use_e_notation>>

Next ==
    \/ Dtoa
    \/ Ftoa
    \/ MaxSigDigits
    \/ MaxDecimalDigits
    \/ IgnoreExtremes
    \/ MinSigDigits
    \/ MinDecimalDigits
    \/ Notation
    \/ MaxWidth
    \/ Format

\* ------------------------------------------------------------------------
\* Inputs
\* ------------------------------------------------------------------------
RECURSIVE DigitsToNat(_)
DigitsToNat(ds) ==
    IF Len(ds) = 0 THEN 0
    ELSE 10 * DigitsToNat(SubSeq(ds, 1, Len(ds) - 1)) + ds[Len(ds)]

\* the mantissas of up to n digits over the digit values D; a shortest
\* round-trip mantissa has no leading and no trailing zero
Mantissas(D, n) ==
    UNION {{DigitsToNat(ds) : ds \in {x \in [1..k -> D] : x[1] # 0 /\ x[k] # 0}} :
           k \in 1..n}

\* finite non-zero floats, given by the decimal d2d / f2d finds for them;
\* exponent is rad_10.exponent, so that e = exponent + the number of digits
Finite(type, ms, es) ==
    {[type |-> type, kind |-> "finite", negative |-> sn, mantissa |-> m,
      exponent |-> x - Len(MantissaDigits(m))] :
        sn \in BOOLEAN, m \in ms, x \in es}

SpecialValues ==
    {[type |-> t, kind |-> k, negative |-> sn, mantissa |-> 0, exponent |-> 0] :
        t \in {"f64", "f32"}, k \in {"nan", "inf"}, sn \in BOOLEAN}

NoCalls ==
    [ max_significant_digits |-> <<>>, min_significant_digits |-> <<>>,
      max_decimal_digits |-> <<>>, min_decimal_digits |-> <<>>,
      upper_e_break |-> <<>>, lower_e_break |-> <<>>, ignore_extremes |-> <<>>,
      round_mode |-> <<>>, force |-> <<>>, capitalize_e |-> <<>>,
      add_point_zero |-> <<>>, max_width |-> <<>>, radix_point |-> <<>>, n |-> 0 ]

InitWith(values, configs) ==
    /\ config \in configs
    /\ calls = NoCalls
    /\ value \in values
    /\ sign = FALSE
    /\ digits = <<>>
    /\ e = 0
    /\ use_e_notation = FALSE
    /\ pc = "call"
    /\ result = <<>>

\* the digits the generator handed to digits_to_a, and their exponent
digits0 == MantissaDigits(value.mantissa)
e0 == value.exponent + Len(digits0)
Rendering == value.kind = "finite" /\ pc # "call"

\* ------------------------------------------------------------------------
\* Spec: both entry points on special and finite values, under the
\* configurations of the repository's round-trip and notation tests
\* ------------------------------------------------------------------------
Values ==
    Finite("f64", Mantissas({0, 1, 5, 9}, MaxLen), -MaxExp..MaxExp)
        \cup Finite("f32", Mantissas({1, 9}, MaxLen32), -MaxExp..MaxExp)
        \cup SpecialValues

Configs ==
    {default,
     add_point_zero(force_no_e_notation(default), TRUE),
     force_e_notation(default),
     upper_e_break(default, 3),
     lower_e_break(default, -3),
     add_point_zero(force_no_e_notation(default), FALSE),
     capitalize_e(default, TRUE),
     add_point_zero(radix_point(default, ","), TRUE)}

Init == InitWith(Values, Configs)

Spec == Init /\ [][Next]_vars

\* ------------------------------------------------------------------------
\* SpecBuilder: chains of builder calls on FmtFloatConfig::default()
\* ------------------------------------------------------------------------
U8Args == {1, 2}
I8Args == {-1, 1}
UpperArgs == {3, 5}
LowerArgs == {-3, -5}
RadixArgs == {".", ","}

\* one builder call: the receiver is replaced by the returned configuration
Build(name, arg, returned) ==
    /\ pc = "config"
    /\ calls.n < MaxCalls
    /\ config' = returned
    /\ calls' = [calls EXCEPT ![name] = <<arg>>, !.n = @ + 1]
    /\ UNCHANGED <<value, sign, digits, e, use_e_notation, pc, result>>

Call_max_significant_digits ==
    \E v \in U8Args :
        Build("max_significant_digits", v, max_significant_digits(config, v))
Call_min_significant_digits ==
    \E v \in U8Args :
        Build("min_significant_digits", v, min_significant_digits(config, v))
Call_max_decimal_digits ==
    \E v \in I8Args : Build("max_decimal_digits", v, max_decimal_digits(config, v))
Call_min_decimal_digits ==
    \E v \in I8Args : Build("min_decimal_digits", v, min_decimal_digits(config, v))
Call_upper_e_break ==
    \E v \in UpperArgs : Build("upper_e_break", v, upper_e_break(config, v))
Call_lower_e_break ==
    \E v \in LowerArgs : Build("lower_e_break", v, lower_e_break(config, v))
Call_ignore_extremes ==
    \E v \in U8Args : Build("ignore_extremes", v, ignore_extremes(config, v))
Call_truncate == Build("round_mode", Truncate, truncate(config))
Call_round == Build("round_mode", Round, round(config))
Call_force_e_notation ==
    Build("force", "force_e_notation", force_e_notation(config))
Call_force_no_e_notation ==
    Build("force", "force_no_e_notation", force_no_e_notation(config))
Call_capitalize_e ==
    \E v \in BOOLEAN : Build("capitalize_e", v, capitalize_e(config, v))
Call_add_point_zero ==
    \E v \in BOOLEAN : Build("add_point_zero", v, add_point_zero(config, v))
Call_max_width ==
    \E v \in U8Args : Build("max_width", <<v>>, max_width(config, v))
Call_no_max_width == Build("max_width", <<>>, no_max_width(config))
Call_radix_point ==
    \E v \in RadixArgs : Build("radix_point", v, radix_point(config, v))

NextBuilder ==
    \/ Call_max_significant_digits
    \/ Call_min_significant_digits
    \/ Call_max_decimal_digits
    \/ Call_min_decimal_digits
    \/ Call_upper_e_break
    \/ Call_lower_e_break
    \/ Call_ignore_extremes
    \/ Call_truncate
    \/ Call_round
    \/ Call_force_e_notation
    \/ Call_force_no_e_notation
    \/ Call_capitalize_e
    \/ Call_add_point_zero
    \/ Call_max_width
    \/ Call_no_max_width
    \/ Call_radix_point

InitBuilder ==
    /\ config = default
    /\ calls = NoCalls
    /\ value \in {v \in SpecialValues : v.type = "f64" /\ v.kind = "nan" /\ ~v.negative}
    /\ sign = FALSE
    /\ digits = <<>>
    /\ e = 0
    /\ use_e_notation = FALSE
    /\ pc = "config"
    /\ result = <<>>

SpecBuilder == InitBuilder /\ [][NextBuilder]_vars

\* ------------------------------------------------------------------------
\* SpecSigCap: the significant-digit cap, limits 0 .. 3, both round modes
\* ------------------------------------------------------------------------
\* digit values on both sides of the rounding threshold, 0 and 9
CapDigits == {0, 4, 5, 9}

CapValues ==
    Finite("f64", Mantissas(CapDigits, MaxLen), -MaxExp..MaxExp)
        \cup Finite("f32", Mantissas({5, 9}, MaxLen32), -MaxExp..MaxExp)

SigCapConfigs ==
    {max_significant_digits(c, l) : c \in {round(default), truncate(default)}, l \in 0..3}

InitSigCap == InitWith(CapValues, SigCapConfigs)

SpecSigCap == InitSigCap /\ [][Next]_vars

\* ------------------------------------------------------------------------
\* SpecTruncate: every cutoff point in truncate mode
\* ------------------------------------------------------------------------
TruncateConfigs ==
    {truncate(c) : c \in
        {max_significant_digits(default, 1),
         max_significant_digits(default, 2),
         max_decimal_digits(default, 1),
         max_decimal_digits(force_no_e_notation(default), -1),
         max_width(force_no_e_notation(default), 7),
         max_width(add_point_zero(default, FALSE), 7),
         max_width(force_e_notation(default), 7),
         max_width(min_significant_digits(max_significant_digits(default, 2), 3), 6),
         min_decimal_digits(max_decimal_digits(default, 1), 2)}}

InitTruncate == InitWith(CapValues, TruncateConfigs)

SpecTruncate == InitTruncate /\ [][Next]_vars

\* ------------------------------------------------------------------------
\* SpecDecCap: the decimal-digit cap, limits -2 .. 2, both round modes
\* ------------------------------------------------------------------------
DecCapConfigs ==
    {max_decimal_digits(add_point_zero(c, z), d) :
        c \in {round(default), truncate(default)}, z \in BOOLEAN, d \in -2..2}

InitDecCap == InitWith(CapValues, DecCapConfigs)

SpecDecCap == InitDecCap /\ [][Next]_vars

\* ------------------------------------------------------------------------
\* SpecExtremes: ignore_extremes 1 .. 3, alone and after a rounding cap
\* ------------------------------------------------------------------------
ExtremeValues ==
    Finite("f64", Mantissas({0, 1, 8, 9}, MaxLen), -MaxExp..MaxExp)
        \cup Finite("f32", Mantissas({0, 9}, MaxLen32 + 1), -MaxExp..MaxExp)

ExtremeConfigs ==
    {ignore_extremes(c, n) :
        c \in {default, max_significant_digits(default, 3), force_e_notation(default)},
        n \in 1..3}

InitExtremes == InitWith(ExtremeValues, ExtremeConfigs)

SpecExtremes == InitExtremes /\ [][Next]_vars

\* ------------------------------------------------------------------------
\* SpecNotation: the e-breaks and force flags, alone and after a stage that
\* changes the exponent
\* ------------------------------------------------------------------------
NotationValues ==
    Finite("f64", Mantissas({4, 9}, MaxLen), -MaxExp..MaxExp)
        \cup Finite("f32", Mantissas({4, 9}, MaxLen32), -MaxExp..MaxExp)

ExponentChangers ==
    {default, max_significant_digits(default, 1), ignore_extremes(default, 2)}

NotationConfigs ==
    {lower_e_break(upper_e_break(c, b), -b) :
        b \in {2, 4},
        c \in ExponentChangers
              \cup {force_e_notation(f) : f \in ExponentChangers}
              \cup {force_no_e_notation(f) : f \in ExponentChangers}}

InitNotation == InitWith(NotationValues, NotationConfigs)

SpecNotation == InitNotation /\ [][Next]_vars

\* ------------------------------------------------------------------------
\* SpecWidth: max_width 7 and 8 over the configurations of test_widths
\* ------------------------------------------------------------------------
WidthValues ==
    Finite("f64", Mantissas({5, 9}, WidthLen), -MaxExp..MaxExp)
        \cup Finite("f32", Mantissas({5, 9}, MaxLen32), -MaxExp..MaxExp)

WidthConfigs ==
    {max_width(c, w) :
        c \in {default,
               force_no_e_notation(default),
               add_point_zero(default, TRUE),
               min_significant_digits(force_e_notation(truncate(default)), 5)},
        w \in 7..8}

InitWidth == InitWith(WidthValues, WidthConfigs)

SpecWidth == InitWidth /\ [][Next]_vars

\* ------------------------------------------------------------------------
\* SpecPadding: min_significant_digits and min_decimal_digits, alone,
\* together and after a cap
\* ------------------------------------------------------------------------
PaddingValues ==
    Finite("f64", Mantissas({0, 1, 5}, MaxLen), -MaxExp..MaxExp)
        \cup Finite("f32", Mantissas({1, 5}, MaxLen32), -MaxExp..MaxExp)

PaddingBases ==
    {default, force_no_e_notation(default), max_significant_digits(default, 2)}

PaddingConfigs ==
    {min_significant_digits(c, s) : c \in PaddingBases, s \in {2, 5}}
        \cup {min_decimal_digits(c, d) : c \in PaddingBases, d \in {-1, 1, 3}}
        \cup {min_decimal_digits(min_significant_digits(c, s), d) :
                  c \in PaddingBases, s \in {2, 5}, d \in {-1, 1, 3}}

InitPadding == InitWith(PaddingValues, PaddingConfigs)

SpecPadding == InitPadding /\ [][Next]_vars

\* ------------------------------------------------------------------------
\* SpecSuffix: add_point_zero and radix_point over integers and
\* non-integers, alone and after a cap or a padding
\* ------------------------------------------------------------------------
SuffixBases ==
    {default,
     force_no_e_notation(default),
     max_significant_digits(default, 2),
     max_significant_digits(truncate(default), 0),
     min_decimal_digits(default, 1)}

SuffixConfigs ==
    {add_point_zero(radix_point(c, r), z) :
        c \in SuffixBases, r \in {".", ","}, z \in BOOLEAN}

InitSuffix == InitWith(PaddingValues, SuffixConfigs)

SpecSuffix == InitSuffix /\ [][Next]_vars

\* ------------------------------------------------------------------------
\* SpecScientific: scientific outputs under every marker, radix character
\* and add_point_zero
\* ------------------------------------------------------------------------
ScientificBases ==
    {default, force_e_notation(default),
     max_significant_digits(force_e_notation(default), 1)}

ScientificConfigs ==
    {capitalize_e(add_point_zero(radix_point(c, r), z), k) :
        c \in ScientificBases, r \in {".", ","}, z \in BOOLEAN, k \in BOOLEAN}

InitScientific == InitWith(PaddingValues, ScientificConfigs)

SpecScientific == InitScientific /\ [][Next]_vars

\* ------------------------------------------------------------------------
\* SpecWidthNotation: max_width from 0 up, under every force flag
\* ------------------------------------------------------------------------
WidthNotationConfigs ==
    {max_width(c, w) :
        c \in {default,
               force_e_notation(default),
               force_no_e_notation(default),
               add_point_zero(force_no_e_notation(default), FALSE)},
        w \in {0, 1, 4, 6, 7}}

InitWidthNotation == InitWith(PaddingValues, WidthNotationConfigs)

SpecWidthNotation == InitWidthNotation /\ [][Next]_vars

\* ------------------------------------------------------------------------
\* SpecLossless: no cap, no padding, no ignore_extremes, no max_width; every
\* digit sequence with a non-zero first digit
\* ------------------------------------------------------------------------
\* the digit sequences of up to n digits over D that start with a non-zero
\* digit, as mantissas
AnyMantissas(D, n) ==
    UNION {{DigitsToNat(ds) : ds \in {x \in [1..k -> D] : x[1] # 0}} : k \in 1..n}

LosslessValues ==
    Finite("f64", AnyMantissas({0, 1, 5}, MaxLen), -MaxExp..MaxExp)
        \cup Finite("f32", AnyMantissas({0, 9}, MaxLen32), -MaxExp..MaxExp)

LosslessConfigs ==
    {capitalize_e(radix_point(add_point_zero(
         lower_e_break(upper_e_break(c, b), -b), z), r[1]), r[2]) :
        c \in {default, force_e_notation(default), force_no_e_notation(default)},
        b \in {2, 4}, z \in BOOLEAN, r \in {<<".", FALSE>>, <<",", TRUE>>}}

InitLossless == InitWith(LosslessValues, LosslessConfigs)

SpecLossless == InitLossless /\ [][Next]_vars

\* ------------------------------------------------------------------------
\* SpecStages: every stage that rewrites the digit vector, in round mode, on
\* digit sequences rich in 9s and 0s
\* ------------------------------------------------------------------------
StagesConfigs ==
    {max_significant_digits(default, 2),
     max_decimal_digits(default, 1),
     max_decimal_digits(force_no_e_notation(default), -1),
     ignore_extremes(default, 2),
     ignore_extremes(max_significant_digits(default, 3), 1),
     min_significant_digits(max_significant_digits(default, 1), 3),
     min_decimal_digits(max_decimal_digits(default, 1), 2),
     max_width(default, 7),
     max_width(force_no_e_notation(default), 7),
     max_width(force_e_notation(default), 7),
     max_width(ignore_extremes(max_decimal_digits(
         max_significant_digits(default, 3), 2), 2), 8)}

InitStages == InitWith(ExtremeValues, StagesConfigs)

SpecStages == InitStages /\ [][Next]_vars

\* ------------------------------------------------------------------------
\* SpecRoundTrip: binary floats and the decimals d2d / f2d find for them.
\* The formats are scaled down: a float is m x 2^q with a significand m of
\* Precision64 (Precision32) bits, or fewer bits at the lowest exponent
\* (subnormal).  d2d and f2d are the ryu_floating_decimal crate's (lib.rs:68);
\* they are modelled by their contract: a decimal of the fewest digits that
\* lies in the float's rounding interval.
\* ------------------------------------------------------------------------
Precision(type) == IF type = "f64" THEN Precision64 ELSE Precision32

Floats(type) ==
    LET P == Precision(type)
    IN {[m |-> m, q |-> q] : m \in Pow2(P - 1)..(Pow2(P) - 1),
                              q \in -SmallBinExp..LargeBinExp}
       \cup {[m |-> m, q |-> -SmallBinExp] : m \in 1..(Pow2(P - 1) - 1)}

\* products that stop at Saturated; of the two sides of a comparison below
\* at most one can reach it
Saturated == Pow10(9)
SatMul(u, v) == IF u = 0 \/ v = 0 THEN 0
                ELSE IF u > Saturated \div v THEN Saturated ELSE u * v

\* the sign of a x 10^x - n x 2^b
Cmp(a, x, n, b) ==
    LET lhs == SatMul(SatMul(a, Pow10(x)), Pow2(-b))
        rhs == SatMul(SatMul(n, Pow2(b)), Pow10(-x))
    IN IF lhs < rhs THEN -1 ELSE IF lhs > rhs THEN 1 ELSE 0

\* a x 10^x lies in the rounding interval of the float f: nearer to f than
\* to its neighbours, or half-way with f's significand even.  In units of
\* 2^(q-2) the interval is 4m-2 .. 4m+2, and 4m-1 .. 4m+2 where f is the
\* lowest significand of its exponent.
RoundsTo(a, x, f, type) ==
    LET lowest == f.m = Pow2(Precision(type) - 1) /\ f.q > -SmallBinExp
        lo == IF lowest THEN 4 * f.m - 1 ELSE 4 * f.m - 2
        hi == 4 * f.m + 2
        cl == Cmp(a, x, lo, f.q - 2)
        ch == Cmp(a, x, hi, f.q - 2)
        even == f.m % 2 = 0
    IN (cl > 0 \/ (cl = 0 /\ even)) /\ (ch < 0 \/ (ch = 0 /\ even))

\* E with 10^(E-1) <= f < 10^E
DecimalExponent(f) ==
    CHOOSE E \in -8..8 : Cmp(1, E - 1, f.m, f.q) <= 0 /\ Cmp(1, E, f.m, f.q) > 0

\* floor(f / 10^x)
Quotient(f, x) ==
    SatMul(SatMul(f.m, Pow2(f.q)), Pow10(-x))
        \div SatMul(Pow2(-f.q), Pow10(x))

\* the decimals a x 10^x of exactly k digits that round to f; they are
\* among the multiples of 10^x next to f
Decimals(f, type, k) ==
    LET E == DecimalExponent(f)
    IN UNION {{<<a, x>> : a \in {b \in (Quotient(f, x) - 9)..(Quotient(f, x) + 10) :
                                    /\ Pow10(k - 1) <= b /\ b < Pow10(k)
                                    /\ RoundsTo(b, x, f, type)}} :
              x \in (E - k - 1)..(E - k + 1)}


\* the decimals of the fewest digits, at least k, that round to f
RECURSIVE ShortestFrom(_, _, _)
ShortestFrom(f, type, k) ==
    IF k > MaxDecimalLen THEN {}
    ELSE IF Decimals(f, type, k) # {} THEN Decimals(f, type, k)
    ELSE ShortestFrom(f, type, k + 1)

Shortest(f, type) == ShortestFrom(f, type, 1)

\* every float of the format with each decimal the generator may return
BinaryValues(type) ==
    UNION {{[type |-> type, kind |-> "finite", negative |-> sn,
             mantissa |-> c[1], exponent |-> c[2], bin |-> f] :
               sn \in BOOLEAN, c \in Shortest(f, type)} : f \in Floats(type)}

\* zero: the mantissa is 0, the exponent is the generator's to choose
ZeroValues ==
    {[type |-> t, kind |-> "finite", negative |-> sn, mantissa |-> 0,
      exponent |-> x, bin |-> [m |-> 0, q |-> 0]] :
        t \in {"f64", "f32"}, sn \in BOOLEAN, x \in {-1, 0}}

RoundTripConfigs ==
    {default,
     add_point_zero(force_no_e_notation(default), TRUE),
     force_e_notation(default)}

InitRoundTrip ==
    InitWith(BinaryValues("f64") \cup BinaryValues("f32") \cup ZeroValues,
             RoundTripConfigs)

SpecRoundTrip == InitRoundTrip /\ [][Next]_vars

\* ------------------------------------------------------------------------
\* SpecGenerator: the digit generator of src/src/raw/mod.rs on the positive
\* floats of the scaled-down f64.  A compensated pair HP { left, right } is
\* modelled by the exact value it stands for, a fraction num / den, and the
\* sign of its error term: the two bounds inhi and inlo are the ends of the
\* rounding interval divided by (2 + ERROL1_EPSILON) instead of 2, that is
\* the exact half-way points moved inwards by less than any decimal in
\* reach; inhi is its fraction minus that little, inlo its fraction plus it.
\* ------------------------------------------------------------------------
\* n x 2^b as a fraction
Fraction(n, b) ==
    IF b >= 0 THEN [num |-> n * Pow2(b), den |-> 1]
    ELSE [num |-> n, den |-> Pow2(-b)]

\* x / 10^k
DivPow10(x, k) ==
    IF k >= 0 THEN [num |-> x.num, den |-> x.den * Pow10(k)]
    ELSE [num |-> x.num * Pow10(-k), den |-> x.den]

\* val + (fpnext(val) - val) / 2 and val + (fpprev(val) - val) / 2, in units
\* of 2^(q-2)
HalfwayNext(f) == 4 * f.m + 2
HalfwayPrev(f) ==
    IF f.m = Pow2(Precision64 - 1) /\ f.q > -SmallBinExp THEN 4 * f.m - 1
    ELSE 4 * f.m - 2

\* the two while loops on inhi: exp with 1 <= inhi < 10, where inhi.left
\* = 10 with a negative inhi.right stays and inhi.left = 1 with a negative
\* inhi.right is multiplied once more
NormalExp(hi) ==
    CHOOSE k \in -8..8 :
        LET num == SatMul(hi.num, Pow10(-k))
            den == SatMul(hi.den, Pow10(k))
        IN den < num /\ num <= SatMul(10, den)

\* `let mut hdig = inhi.left as u8; if inhi.left == hdig as f64 &&
\* inhi.right < 0.0 { hdig -= 1 }`: inhi.right is negative; num is inhi x den
HDig(num, den) == IF num % den = 0 THEN num \div den - 1 ELSE num \div den

\* the same for inlo, whose inlo.right is positive
LDig(num, den) == num \div den

\* lines 194-241: the digit loop and the final digit; hn and ln are
\* inhi x den and inlo x den
RECURSIVE DigitLoop(_, _, _, _)
DigitLoop(hn, ln, den, res) ==
    LET hdig == HDig(hn, den)
        ldig == LDig(ln, den)
    IN IF ldig # hdig
       THEN Append(res, (hn + ln + den) \div (2 * den))
       ELSE DigitLoop((hn - hdig * den) * 10, (ln - ldig * den) * 10, den,
                      Append(res, hdig))

\* raw::dtoa (lines 125-244) on a positive float: (res, exp)
raw_dtoa(f) ==
    LET exp == NormalExp(Fraction(HalfwayNext(f), f.q - 2))
        inhi == DivPow10(Fraction(HalfwayNext(f), f.q - 2), exp)
        inlo == DivPow10(Fraction(HalfwayPrev(f), f.q - 2), exp)
    IN [res |-> DigitLoop(inhi.num, inlo.num, inhi.den, <<>>), exp |-> exp]

GeneratorValues ==
    {[type |-> "f64", kind |-> "finite", negative |-> FALSE,
      mantissa |-> 0, exponent |-> 0, bin |-> f] : f \in Floats("f64")}

\* one call of raw::dtoa
RawDtoa ==
    /\ pc = "call"
    /\ LET r == raw_dtoa(value.bin)
       IN /\ digits' = r.res
          /\ e' = r.exp
    /\ pc' = "generated"
    /\ UNCHANGED <<config, calls, value, sign, use_e_notation, result>>

NextGenerator == RawDtoa

InitGenerator == InitWith(GeneratorValues, {default})

SpecGenerator == InitGenerator /\ [][NextGenerator]_vars

\* ------------------------------------------------------------------------
\* Properties
\* ------------------------------------------------------------------------
\* C4: NaN renders as "NaN", positive infinity as "inf" and negative
\* infinity as "-inf", from dtoa as well as from ftoa, under every
\* configuration.
C4_SpecialTokens ==
    (pc = "done" /\ value.kind # "finite") =>
        result = (IF value.kind = "nan" THEN <<"N", "a", "N">>
                  ELSE IF value.negative THEN <<"-", "i", "n", "f">>
                  ELSE <<"i", "n", "f">>)

\* C6: after any sequence of builder calls on the default configuration the
\* two force flags are never both set; force_e_notation is set exactly when
\* the most recent of the two force calls was force_e_notation(), and
\* force_no_e_notation exactly when it was force_no_e_notation().
C6_ForceFlagsExclusive ==
    pc = "config" =>
        /\ ~(config.force_e_notation /\ config.force_no_e_notation)
        /\ config.force_e_notation = (calls.force = <<"force_e_notation">>)
        /\ config.force_no_e_notation = (calls.force = <<"force_no_e_notation">>)

\* C6 witness: both force methods were called, force_e_notation() last
C6_Witness ==
    /\ pc = "config"
    /\ calls = [NoCalls EXCEPT !.force = <<"force_e_notation">>, !.n = 2]
    /\ config.force_e_notation

\* C3: no call of dtoa or ftoa on a finite value panics, whatever the
\* configuration (max_significant_digits(0) included): no stage indexes or
\* drains outside the digit vector or underflows digits.len() - 1.
C3_NoFailure == pc # "panic"

\* 0.ds x 10^ex = n x 10^(x - Len(digits0)), i.e. n units of the last input digit
ValueIs(ds, ex, n) ==
    LET k == (ex - Len(ds)) - (e0 - Len(digits0))
    IN k >= 0 /\ DigitsToNat(ds) * Pow10(k) = n

\* the input mantissa rounded half-up to its first l digits, in units of the
\* last input digit
RoundedHalfUp(l) ==
    LET unit == Pow10(Len(digits0) - l)
    IN ((value.mantissa + unit \div 2) \div unit) * unit

AllDecimal(ds) == \A i \in 1..Len(ds) : ds[i] \in 0..9

\* C7: in round mode with max_significant_digits = L >= 1, a digit sequence
\* longer than L leaves the stage with at most L digits whose value is the
\* input rounded half-up at L significant digits; when all L kept digits are
\* 9 and the first dropped digit is >= 5 the sequence is the single digit 1
\* and the exponent is one more; a sequence of at most L digits is unchanged.
C7_SigCapRounds ==
    (Rendering /\ pc = "max_decimal_digits" /\ config.round_mode = Round
        /\ config.max_sig_digits # <<>> /\ config.max_sig_digits[1] >= 1) =>
        LET L == config.max_sig_digits[1]
        IN IF Len(digits0) <= L THEN digits = digits0 /\ e = e0
           ELSE /\ Len(digits) \in 1..L
                /\ AllDecimal(digits)
                /\ ValueIs(digits, e, RoundedHalfUp(L))
                /\ ((\A i \in 1..L : digits0[i] = 9) /\ digits0[L + 1] >= 5)
                       => (digits = <<1>> /\ e = e0 + 1)
                /\ (digits0[L + 1] < 5) => (digits = SubSeq(digits0, 1, L) /\ e = e0)

\* C7 witness: 0.995 capped at two digits has collapsed to 0.1 x 10^(E+1)
C7_Witness ==
    /\ Rendering /\ pc = "max_decimal_digits" /\ config.round_mode = Round
    /\ config.max_sig_digits = <<2>>
    /\ digits0 = <<9, 9, 5>>
    /\ digits = <<1>> /\ e = e0 + 1

\* ---- reading an output string as a decimal numeral ----
DecimalChars == {DigitChar(d) : d \in 0..9}
CharDigit(c) == CHOOSE d \in 0..9 : DigitChar(d) = c

\* the first position of str holding a character of cs, 0 if there is none
IndexOf(str, cs) ==
    IF \E i \in 1..Len(str) : str[i] \in cs
    THEN CHOOSE i \in 1..Len(str) : str[i] \in cs /\ \A j \in 1..(i - 1) : str[j] \notin cs
    ELSE 0

RECURSIVE StrToNat(_)
StrToNat(str) ==
    IF Len(str) = 0 THEN 0
    ELSE 10 * StrToNat(SubSeq(str, 1, Len(str) - 1)) + CharDigit(str[Len(str)])

IsNat(str) == Len(str) > 0 /\ \A i \in 1..Len(str) : str[i] \in DecimalChars
IsInt(str) == IsNat(str) \/ (Len(str) > 1 /\ str[1] = "-" /\ IsNat(Tail(str)))
StrToInt(str) == IF str[1] = "-" THEN -StrToNat(Tail(str)) ELSE StrToNat(str)

\* the parts of an output: sign, integer digits, fraction digits, exponent
Parts(str, radix) ==
    LET neg == Len(str) > 0 /\ str[1] = "-"
        body == IF neg THEN Tail(str) ELSE str
        ePos == IndexOf(body, {"e", "E"})
        mant == IF ePos = 0 THEN body ELSE SubSeq(body, 1, ePos - 1)
        rPos == IndexOf(mant, {radix})
    IN [neg |-> neg,
        sci |-> ePos # 0,
        point |-> rPos # 0,
        int |-> IF rPos = 0 THEN mant ELSE SubSeq(mant, 1, rPos - 1),
        frac |-> IF rPos = 0 THEN <<>> ELSE SubSeq(mant, rPos + 1, Len(mant)),
        exp |-> IF ePos = 0 THEN <<"0">> ELSE SubSeq(body, ePos + 1, Len(body))]

\* str is a decimal numeral: [-]digits[radix digits][(e|E)[-]digits]
IsNumeral(str, radix) ==
    LET p == Parts(str, radix)
    IN IsNat(p.int) /\ (p.frac = <<>> \/ IsNat(p.frac)) /\ IsInt(p.exp)

\* the numeral str denotes num x 10^exp
Denoted(str, radix) ==
    LET p == Parts(str, radix)
    IN [neg |-> p.neg, num |-> StrToNat(p.int \o p.frac),
        exp |-> StrToInt(p.exp) - Len(p.frac)]

\* n1 x 10^x1 = n2 x 10^x2
SameDecimal(n1, x1, n2, x2) ==
    LET m == IF x1 < x2 THEN x1 ELSE x2
    IN n1 * Pow10(x1 - m) = n2 * Pow10(x2 - m)

\* ds is a prefix of from followed only by zeros
PrefixThenZeros(ds, from) ==
    \E k \in 0..Len(from) :
        /\ k <= Len(ds)
        /\ SubSeq(ds, 1, k) = SubSeq(from, 1, k)
        /\ \A i \in (k + 1)..Len(ds) : ds[i] = 0

\* C8: in truncate mode without ignore_extremes no cutoff changes a kept
\* digit or the exponent: at every stage the digit vector is a prefix of the
\* generated digits followed only by zeros, the exponent is the generated
\* one, and the returned string denotes sign x 0.p x 10^E for a prefix p of
\* the generated digits.
C8_TruncateNeverRounds ==
    (Rendering /\ config.round_mode = Truncate /\ config.ignore_extremes = <<>>) =>
        /\ e = e0
        /\ PrefixThenZeros(digits, digits0)
        /\ pc = "done" =>
            /\ IsNumeral(result, config.radix_point)
            /\ LET d == Denoted(result, config.radix_point)
               IN /\ d.neg = value.negative
                  /\ \E k \in 0..Len(digits0) :
                        SameDecimal(d.num, d.exp,
                                    DigitsToNat(SubSeq(digits0, 1, k)), e0 - k)

\* C8 witness: 0.9995 x 10^E cut to two significant digits was returned as 99
C8_Witness ==
    /\ Rendering /\ pc = "done" /\ config.round_mode = Truncate
    /\ config.max_sig_digits = <<2>> /\ config.max_width = <<>>
    /\ digits0 = <<9, 9, 9, 5>> /\ e0 = 2
    /\ result = <<"9", "9", ".", "0">>

\* C9: with max_decimal_digits = D and no minimum padding and no max_width,
\* a plain-notation output has no non-zero digit more than D places right of
\* the radix point; for D >= 0 without add_point_zero it shows at most D
\* digits after the radix point; for D < 0 the last -D digits of the integer
\* part are zero.
C9_DecimalCap ==
    (Rendering /\ pc = "done" /\ config.max_decimal_digits # <<>>
        /\ config.min_sig_digits = <<>> /\ config.min_decimal_digits = <<>>
        /\ config.max_width = <<>> /\ ~Parts(result, config.radix_point).sci) =>
        LET D == config.max_decimal_digits[1]
            p == Parts(result, config.radix_point)
        IN /\ \A i \in 1..Len(p.frac) : i > D => p.frac[i] = "0"
           /\ (D >= 0 /\ ~config.add_point_zero) => Len(p.frac) <= D
           /\ D < 0 => \A i \in 1..Len(p.int) : i > Len(p.int) + D => p.int[i] = "0"

\* the positions at which a run of n 9s or of n 0s starts in ds
RunStarts(ds, n) ==
    {k \in 1..(Len(ds) - n + 1) :
        \/ \A i \in k..(k + n - 1) : ds[i] = 9
        \/ \A i \in k..(k + n - 1) : ds[i] = 0}

\* C10: the ignore_extremes stage with limit N >= 1 leaves a sequence with
\* no run of N 9s or N 0s unchanged; otherwise it cuts the sequence at the
\* start of the first such run, and for a run of 9s increments the digit
\* before it (a run that starts the sequence leaves the digit 1 and the
\* exponent one higher); the result holds no digit above 9.
C10_ExtremeRuns ==
    [][(pc = "ignore_extremes" /\ config.ignore_extremes # <<>>
            /\ config.ignore_extremes[1] >= 1) =>
        LET starts == RunStarts(digits, config.ignore_extremes[1])
            k == CHOOSE x \in starts : \A y \in starts : x <= y
            head == SubSeq(digits, 1, k - 1)
        IN /\ pc' = "min_sig_digits"
           /\ AllDecimal(digits')
           /\ IF starts = {} THEN digits' = digits /\ e' = e
              ELSE IF digits[k] = 0 THEN digits' = head /\ e' = e
              ELSE IF k = 1 THEN digits' = <<1>> /\ e' = e + 1
              ELSE /\ digits' = [head EXCEPT ![k - 1] = digits[k - 1] + 1]
                   /\ e' = e]_vars

\* C10 witness: 0.8991 with limit 2 left the stage as 0.9
C10_Witness ==
    /\ Rendering /\ pc = "min_sig_digits"
    /\ config.ignore_extremes = <<2>> /\ config.max_sig_digits = <<>>
    /\ digits0 = <<8, 9, 9, 1>>
    /\ digits = <<9>> /\ e = e0

\* C5: with max_width unset the returned string is in scientific notation
\* exactly when (E > upper_e_break or E <= lower_e_break or force_e_notation)
\* and not force_no_e_notation, E being the exponent after the cap and
\* suppression stages.
C5_NotationDecision ==
    (Rendering /\ pc = "done" /\ config.max_width = <<>>) =>
        (Parts(result, config.radix_point).sci <=>
            ((e > config.upper_e_break \/ e <= config.lower_e_break
                  \/ config.force_e_notation)
             /\ ~config.force_no_e_notation))

\* C5 witness: an exponent equal to lower_e_break, no force flag, and a
\* scientific output
C5_Witness ==
    /\ Rendering /\ pc = "done" /\ config.max_width = <<>>
    /\ ~config.force_e_notation /\ ~config.force_no_e_notation
    /\ e = config.lower_e_break
    /\ Parts(result, config.radix_point).sci

\* an exponent equal to upper_e_break, reached by a carry, stays plain
C5_UpperBreakPlain ==
    /\ Rendering /\ pc = "done" /\ config.max_width = <<>>
    /\ ~config.force_e_notation /\ ~config.force_no_e_notation
    /\ e = config.upper_e_break /\ e0 = e - 1
    /\ ~Parts(result, config.radix_point).sci

\* C1: with max_width = W, W >= 7, the string returned for a finite
\* non-zero value is at most W characters long.
C1_WidthBound ==
    (Rendering /\ pc = "done" /\ config.max_width # <<>> /\ config.max_width[1] >= 7) =>
        Len(result) <= config.max_width[1]

\* n x 10^x without the trailing zeros of n
RECURSIVE Normalized(_, _)
Normalized(n, x) ==
    IF n # 0 /\ n % 10 = 0 THEN Normalized(n \div 10, x + 1) ELSE <<n, x>>

\* C2: under the default configuration, under default + force_no_e_notation
\* + add_point_zero(true) and under default + force_e_notation, the string
\* dtoa (ftoa) returns for a finite value is a decimal numeral of the same
\* sign that a correctly rounding parser maps back to that value: zero for
\* zero, and else a decimal in the value's rounding interval.
C2_RoundTrip ==
    (Rendering /\ pc = "done") =>
        /\ IsNumeral(result, config.radix_point)
        /\ LET d == Denoted(result, config.radix_point)
               n == Normalized(d.num, d.exp)
           IN /\ d.neg = value.negative
              /\ IF value.bin.m = 0 THEN d.num = 0
                 ELSE RoundsTo(n[1], n[2], value.bin, value.type)

\* C2 witness: an f64 of the highest exponent was returned in scientific
\* notation with two digits under the default configuration
C2_Witness ==
    /\ Rendering /\ pc = "done" /\ config = default
    /\ value.type = "f64" /\ value.bin.q = LargeBinExp
    /\ value.mantissa > 9
    /\ Parts(result, config.radix_point).sci

ZeroDigits(n) == [i \in 1..n |-> 0]
MinSig(cfg) == IF cfg.min_sig_digits = <<>> THEN 0 ELSE cfg.min_sig_digits[1]

\* C11: with max_width unset each padding stage only appends zero digits
\* and leaves the exponent alone; after the first the sequence has at least
\* min_significant_digits digits, after the second also at least
\* min_decimal_digits + E; a sequence already long enough is not modified;
\* a plain-notation output shows at least min_decimal_digits digits after
\* the radix point and denotes the value of the padded (hence of the
\* unpadded) digits.
C11_PaddingAppendsZeros ==
    [][(Rendering /\ config.max_width = <<>>) =>
        /\ pc = "min_sig_digits" =>
              /\ pc' = "min_decimal_digits" /\ e' = e
              /\ Len(digits') >= Len(digits)
              /\ digits' = digits \o ZeroDigits(Len(digits') - Len(digits))
              /\ Len(digits') >= MinSig(config)
              /\ Len(digits) >= MinSig(config) => digits' = digits
        /\ pc = "min_decimal_digits" =>
              /\ pc' = "notation" /\ e' = e
              /\ Len(digits') >= Len(digits)
              /\ digits' = digits \o ZeroDigits(Len(digits') - Len(digits))
              /\ Len(digits') >= MinSig(config)
              /\ config.min_decimal_digits # <<>> =>
                    /\ Len(digits') >= config.min_decimal_digits[1] + e
                    /\ Len(digits) >= config.min_decimal_digits[1] + e
                          => digits' = digits
              /\ config.min_decimal_digits = <<>> => digits' = digits
        /\ (pc = "format" /\ ~use_e_notation) =>
              /\ pc' = "done"
              /\ IsNumeral(result', config.radix_point)
              /\ LET p == Parts(result', config.radix_point)
                     d == Denoted(result', config.radix_point)
                 IN /\ ~p.sci
                    /\ d.neg = sign
                    /\ SameDecimal(d.num, d.exp, DigitsToNat(digits), e - Len(digits))
                    /\ config.min_decimal_digits # <<>> =>
                          Len(p.frac) >= config.min_decimal_digits[1]]_vars

\* C11 witness: 1.5 with min_decimal_digits = 3 was returned as 1.500
C11_Witness ==
    /\ Rendering /\ pc = "done"
    /\ config = min_decimal_digits(default, 3)
    /\ digits0 = <<1, 5>> /\ e0 = 1
    /\ digits = <<1, 5, 0, 0>>
    /\ result = <<"1", ".", "5", "0", "0">>

EndsWith(str, suffix) ==
    /\ Len(str) >= Len(suffix)
    /\ SubSeq(str, Len(str) - Len(suffix) + 1, Len(str)) = suffix

\* C12: in plain notation with max_width unset, the output of a bare
\* integer (no digit right of the radix position) ends with the radix
\* character followed by 0 exactly when add_point_zero is set, and with
\* add_point_zero false it holds no radix character at all; the output of a
\* non-integer is the same with add_point_zero set and cleared.
C12_IntegerSuffix ==
    (Rendering /\ pc = "done" /\ config.max_width = <<>> /\ ~use_e_notation) =>
        LET bare == Len(digits) <= e
            radix == config.radix_point
            flipped == [config EXCEPT !.add_point_zero = ~@]
        IN /\ bare => (EndsWith(result, <<radix, "0">>) <=> config.add_point_zero)
           /\ (bare /\ ~config.add_point_zero) =>
                  \A i \in 1..Len(result) : result[i] # radix
           /\ ~bare => result = NoENotation(sign, digits, e, flipped).str

\* C13: with max_width unset a scientific output is exactly: - if the sign
\* is negative, the first digit, the radix character, the remaining digits
\* (a single 0 when there is only one digit), E if capitalize_e else e, then
\* the decimal integer E - 1; add_point_zero has no effect on it.
C13_ScientificAssembly ==
    (Rendering /\ pc = "done" /\ config.max_width = <<>> /\ use_e_notation) =>
        LET rest == IF Len(digits) = 1 THEN <<"0">>
                    ELSE DigitsStr(SubSeq(digits, 2, Len(digits)))
            marker == IF config.capitalize_e THEN "E" ELSE "e"
            head == (IF sign THEN <<"-">> ELSE <<>>)
                        \o <<DigitChar(digits[1]), config.radix_point>>
                        \o rest \o <<marker>>
            flipped == [config EXCEPT !.add_point_zero = ~@]
        IN /\ Len(digits) >= 1
           /\ Len(result) > Len(head)
           /\ SubSeq(result, 1, Len(head)) = head
           /\ LET exp == SubSeq(result, Len(head) + 1, Len(result))
              IN /\ IsInt(exp)
                 /\ StrToInt(exp) = e - 1
                 /\ exp[1] = "0" => Len(exp) = 1
                 /\ (exp[1] = "-") => exp[2] # "0"
           /\ result = FormatStage(sign, digits, e, use_e_notation, flipped).str

\* C13 witness: -0.001 under force_e_notation, capitalize_e and the radix
\* character , was returned as -1,0E-3
C13_Witness ==
    /\ Rendering /\ pc = "done" /\ use_e_notation
    /\ config.capitalize_e /\ config.radix_point = "," /\ ~config.add_point_zero
    /\ sign /\ digits = <<1>> /\ e = -2
    /\ result = <<"-", "1", ",", "0", "E", "-", "3">>

\* C14: for every finite non-zero value the digits the generator returns
\* are a decimal d1.d2...dn x 10^exp of the value's rounding interval, and
\* no decimal of fewer digits lies in that interval.
C14_ShortestLength ==
    pc = "generated" =>
        /\ AllDecimal(digits) /\ Len(digits) >= 1 /\ digits[1] # 0
        /\ RoundsTo(DigitsToNat(digits), e - Len(digits) + 1, value.bin, value.type)
        /\ \A k \in 1..(Len(digits) - 1) : Decimals(value.bin, value.type, k) = {}

\* C15: in round mode with max_width set, whenever the width pass drops
\* digits, what is kept is the digit sequence cut at some position and
\* rounded by the first dropped digit with the carry rule of the
\* significant-digit cap: in the plain case the digit vector that leaves the
\* width stage, in the scientific case the digits and the exponent printed.
C15_WidthPassRounds ==
    [][(Rendering /\ config.round_mode = Round /\ config.max_width # <<>>) =>
        /\ (pc = "max_width" /\ pc' = "format" /\ Len(digits') < Len(digits)) =>
              \E k \in 0..(Len(digits) - 1) :
                  LET r == CutAt(digits, e, k, Round)
                  IN ~r.panic /\ digits' = r.digits /\ e' = r.e
        /\ (pc = "format" /\ pc' = "done" /\ use_e_notation) =>
              LET p == Parts(result', config.radix_point)
                  shown == p.int \o p.frac
              IN Len(shown) < Len(digits) =>
                    \E k \in 1..(Len(digits) - 1) :
                        LET r == CutAt(digits, e, k, Round)
                        IN /\ ~r.panic
                           /\ shown = DigitsStr(r.digits)
                           /\ StrToInt(p.exp) = r.e - 1]_vars

\* C16: with max_width = W set and W' = W - 1 for negative values (W
\* otherwise), the width stage switches to scientific notation if E > 0 and
\* E + (2 if add_point_zero else 0) > W', or if 3 - E > W', whatever the
\* force flags; otherwise it keeps the notation of the notation decision;
\* the output is scientific exactly when that notation is.
C16_WidthOverridesNotation ==
    [][(Rendering /\ config.max_width # <<>>) =>
        LET W == IF sign THEN config.max_width[1] - 1 ELSE config.max_width[1]
            forced == \/ e > 0 /\ e + (IF config.add_point_zero THEN 2 ELSE 0) > W
                      \/ 3 - e > W
        IN /\ (pc = "max_width" /\ pc' = "format") =>
                  use_e_notation' = (forced \/ use_e_notation)
           /\ (pc = "format" /\ pc' = "done") =>
                  Parts(result', config.radix_point).sci = use_e_notation]_vars

\* C17: if the string rendered with max_width unset has length <= W, then
\* rendering the same input under the same configuration plus max_width = W
\* returns the identical string.
C17_WidthKeepsFittingOutput ==
    (Rendering /\ pc \in {"done", "panic"} /\ config.max_width # <<>>) =>
        LET unset == digits_to_a(value.negative, digits0, e0, no_max_width(config), TRUE)
        IN (~unset.panic /\ Len(unset.str) <= config.max_width[1]) =>
              (pc = "done" /\ result = unset.str)

\* C18: without caps, padding, ignore_extremes and max_width the returned
\* string is a decimal numeral that denotes exactly sign x 0.d1...dn x 10^E
\* for the generated digits d1..dn and exponent E; a plain output has E
\* digits before the radix point (a single 0 and -E zeros after the point
\* when E <= 0), a scientific output is d1, the point, d2..dn and the
\* exponent E - 1.
C18_LosslessRendering ==
    (Rendering /\ pc = "done"
        /\ config.max_sig_digits = <<>> /\ config.max_decimal_digits = <<>>
        /\ config.min_sig_digits = <<>> /\ config.min_decimal_digits = <<>>
        /\ config.ignore_extremes = <<>> /\ config.max_width = <<>>) =>
        /\ IsNumeral(result, config.radix_point)
        /\ LET p == Parts(result, config.radix_point)
               d == Denoted(result, config.radix_point)
               n == Len(digits0)
           IN /\ d.neg = value.negative
              /\ SameDecimal(d.num, d.exp, value.mantissa, e0 - n)
              /\ p.sci =>
                    /\ p.int = <<DigitChar(digits0[1])>>
                    /\ p.frac = (IF n = 1 THEN <<"0">>
                                 ELSE DigitsStr(SubSeq(digits0, 2, n)))
                    /\ StrToInt(p.exp) = e0 - 1
              /\ (~p.sci /\ e0 > 0) =>
                    /\ Len(p.int) = e0
                    /\ \A i \in 1..e0 :
                          p.int[i] = (IF i <= n THEN DigitChar(digits0[i]) ELSE "0")
              /\ (~p.sci /\ e0 <= 0) =>
                    /\ p.int = <<"0">>
                    /\ p.frac = Zeros(-e0) \o DigitsStr(digits0)

\* C18 witness: -10500 under force_no_e_notation and the radix character ,
\* was returned as -10500,0
C18_Witness ==
    /\ Rendering /\ pc = "done"
    /\ config.force_no_e_notation /\ config.radix_point = ","
    /\ value.negative /\ digits0 = <<1, 0, 5>> /\ e0 = 5
    /\ result = <<"-", "1", "0", "5", "0", "0", ",", "0">>

\* C19: after every renderer stage each element of the digit vector is a
\* decimal digit 0-9 (the 10 a carry creates does not outlive its stage),
\* and the returned string holds nothing but an optional leading -, decimal
\* digits and the radix character, followed in scientific notation by the
\* marker e or E and a signed integer.
C19_DigitsStayDecimal ==
    (Rendering /\ pc # "panic") =>
        /\ AllDecimal(digits)
        /\ pc = "done" =>
              LET body == IF Len(result) > 0 /\ result[1] = "-" THEN Tail(result)
                          ELSE result
                  ePos == IndexOf(body, {"e", "E"})
                  mant == IF ePos = 0 THEN body ELSE SubSeq(body, 1, ePos - 1)
              IN /\ \A i \in 1..Len(mant) :
                        mant[i] \in DecimalChars \cup {config.radix_point}
                 /\ (ePos # 0) = use_e_notation
                 /\ ePos # 0 => IsInt(SubSeq(body, ePos + 1, Len(body)))

\* C19 witness: 1.99 capped at two significant digits carried through a
\* transient 10 and was returned as 2.0
C19_Witness ==
    /\ Rendering /\ pc = "done"
    /\ config = max_significant_digits(default, 2)
    /\ digits0 = <<1, 9, 9>> /\ e0 = 1
    /\ digits = <<2>>
    /\ result = <<"2", ".", "0">>

\* the value of the last call on an option, or else the default
LastOr(last, dflt) == IF last = <<>> THEN dflt ELSE last[1]

\* the configuration in which every option holds the argument of the last
\* call that names it, or its default
LastCalls(c) ==
    [ max_sig_digits      |-> c.max_significant_digits,
      min_sig_digits      |-> c.min_significant_digits,
      max_decimal_digits  |-> c.max_decimal_digits,
      min_decimal_digits  |-> c.min_decimal_digits,
      upper_e_break       |-> LastOr(c.upper_e_break, 4),
      lower_e_break       |-> LastOr(c.lower_e_break, -4),
      ignore_extremes     |-> c.ignore_extremes,
      round_mode          |-> LastOr(c.round_mode, "Round"),
      force_e_notation    |-> c.force = <<"force_e_notation">>,
      force_no_e_notation |-> c.force = <<"force_no_e_notation">>,
      capitalize_e        |-> LastOr(c.capitalize_e, FALSE),
      add_point_zero      |-> LastOr(c.add_point_zero, TRUE),
      max_width           |-> LastOr(c.max_width, <<>>),
      radix_point         |-> LastOr(c.radix_point, ".") ]

\* the call that sets each field
SetBy ==
    [ max_sig_digits      |-> "max_significant_digits",
      min_sig_digits      |-> "min_significant_digits",
      max_decimal_digits  |-> "max_decimal_digits",
      min_decimal_digits  |-> "min_decimal_digits",
      upper_e_break       |-> "upper_e_break",
      lower_e_break       |-> "lower_e_break",
      ignore_extremes     |-> "ignore_extremes",
      round_mode          |-> "round_mode",
      force_e_notation    |-> "force",
      force_no_e_notation |-> "force",
      capitalize_e        |-> "capitalize_e",
      add_point_zero      |-> "add_point_zero",
      max_width           |-> "max_width",
      radix_point         |-> "radix_point" ]

\* C20: a builder call changes no field but the one it names (the two
\* force calls the two force flags, truncate / round the round mode,
\* max_width / no_max_width the width), so after any sequence of calls each
\* option holds the argument of the last call that names it, or its default
\* (upper_e_break 4, lower_e_break -4, round mode, add_point_zero true,
\* capitalize_e false, radix ., every limit unset) if none does.
C20_BuilderFrame ==
    [][pc = "config" =>
        /\ config' = LastCalls(calls')
        /\ \A f \in DOMAIN config :
              calls'[SetBy[f]] = calls[SetBy[f]] => config'[f] = config[f]
        /\ Cardinality({k \in DOMAIN calls \ {"n"} : calls'[k] # calls[k]}) <= 1]_vars

\* C20 witness: three calls on three options, the others at their defaults
C20_Witness ==
    /\ pc = "config"
    /\ calls = [NoCalls EXCEPT !.force = <<"force_no_e_notation">>,
                                !.max_width = <<<<2>>>>,
                                !.capitalize_e = <<TRUE>>, !.n = 3]
    /\ config = [default EXCEPT !.force_no_e_notation = TRUE,
                                 !.max_width = <<2>>, !.capitalize_e = TRUE]
====
